---- MODULE Spec2Model ----
(***************************************************************************)
(* A model of BigInt<MAX_SIZE> (src/src/bigint.rs): a sign, MAX_SIZE       *)
(* right-aligned decimal digits and a digit count, with its constructors,  *)
(* comparisons and the four arithmetic algorithms.                         *)
(*                                                                         *)
(* usize values are kept as integers standing for residues modulo 2^64:    *)
(* a negative integer -k stands for 2^64 - k, the value a wrapping         *)
(* subtraction leaves.  Every operator follows the wrapping (release)      *)
(* evaluation and records in "ovf" whether some integer operation          *)
(* overflowed on the way and in "oob" whether an index left the array.     *)
(* A build with overflow checks panics at the first overflow; a build      *)
(* without them carries on with the wrapped value.  Both builds panic on   *)
(* an index out of bounds.                                                 *)
(***************************************************************************)
EXTENDS Integers, Sequences, FiniteSets, TLC

\* BigInt<3>, the instance the division test uses (type I3 = BigInt<3>).
MAX_SIZE == 3

\* Operand digits are drawn from 0..MaxLowDigit and 9.
MaxLowDigit == 1

\* '-' and '0' as bytes.
MINUS == 45
ZERO_CHAR == 48

Idx == 0 .. (MAX_SIZE - 1)

\* a < b on usize, for integers standing for residues modulo 2^64
ULess(a, b) == IF (a < 0) = (b < 0) THEN a < b ELSE b < 0

InBounds(i) == 0 <= i /\ i < MAX_SIZE

max(x, y) == IF x > y THEN x ELSE y

BigInt(neg, ds, size) == [is_negative |-> neg, digits |-> ds, current_size |-> size]

DEFAULT == BigInt(FALSE, [i \in Idx |-> 0], 1)

\* What a function leaves: its value, whether an integer operation overflowed,
\* whether an index was out of bounds, whether it never returns.
Ret(v, ovf, oob) == [val |-> v, ovf |-> ovf, oob |-> oob, loops |-> FALSE]

is_zero(x) == x.current_size = 1 /\ x.digits[MAX_SIZE - 1] = 0

\* ---------------------------------------------------------------- Display

fmt(x) ==
    LET body == [k \in 1 .. x.current_size |->
                    x.digits[MAX_SIZE - x.current_size + k - 1] + ZERO_CHAR]
    IN  IF x.is_negative THEN <<MINUS>> \o body ELSE body

\* --------------------------------------------------------------- from_str

RECURSIVE from_str_loop(_, _, _)
from_str_loop(chars, i, r) ==
    IF ~ULess(i, MAX_SIZE) \/ r.oob THEN r
    ELSE LET k == i + Len(chars) - MAX_SIZE
         IN  IF k < 0 \/ k >= Len(chars)
             THEN [r EXCEPT !.oob = TRUE]
             ELSE LET c == chars[k + 1]
                      d == IF c < ZERO_CHAR THEN c - ZERO_CHAR + 256 ELSE c - ZERO_CHAR
                  IN  from_str_loop(chars, i + 1,
                          [r EXCEPT !.val.digits[i] = d,
                                    !.ovf = r.ovf \/ c < ZERO_CHAR])

from_str(chars) ==
    IF Len(chars) = 0 THEN Ret(DEFAULT, FALSE, TRUE)
    ELSE LET neg  == chars[1] = MINUS
             sign == IF neg THEN 1 ELSE 0
             i    == MAX_SIZE + sign - Len(chars)
         IN  from_str_loop(chars, i,
                 Ret(BigInt(neg, DEFAULT.digits, MAX_SIZE - i), i < 0, FALSE))

\* -------------------------------------------------------------- from_i128

RECURSIVE from_i128_loop(_, _, _)
from_i128_loop(num, i, r) ==
    IF ~(num > 0) \/ r.oob
    THEN [r EXCEPT !.val.current_size = MAX_SIZE - i - 1]
    ELSE IF ~InBounds(i)
         THEN [r EXCEPT !.oob = TRUE]
         ELSE from_i128_loop(num \div 10, i - 1,
                  [r EXCEPT !.val.digits[i] = num % 10,
                            !.ovf = r.ovf \/ i = 0])

from_i128(num) ==
    from_i128_loop(IF num < 0 THEN -num ELSE num, MAX_SIZE - 1,
                   Ret(BigInt(num < 0, DEFAULT.digits, 1), FALSE, FALSE))

\* ------------------------------------------------------------ comparisons

\* What a comparison leaves: its answer and whether an integer operation overflowed.
BRet(b, ovf) == [b |-> b, ovf |-> ovf]

RECURSIVE abs_less_loop(_, _, _)
abs_less_loop(self, other, i) ==
    IF ~ULess(i, MAX_SIZE) THEN FALSE
    ELSE IF self.digits[i] < other.digits[i] THEN TRUE
    ELSE IF self.digits[i] > other.digits[i] THEN FALSE
    ELSE abs_less_loop(self, other, i + 1)

abs_less(self, other) ==
    IF self.current_size # other.current_size
    THEN BRet(~(self.current_size > other.current_size), FALSE)
    ELSE LET i == MAX_SIZE - self.current_size - 1
         IN  BRet(abs_less_loop(self, other, i), i < 0)

RECURSIVE less_loop(_, _, _)
less_loop(self, other, i) ==
    IF ~ULess(i, MAX_SIZE) THEN FALSE
    ELSE IF self.digits[i] < other.digits[i] THEN ~self.is_negative
    ELSE IF self.digits[i] > other.digits[i] THEN self.is_negative
    ELSE less_loop(self, other, i + 1)

less(self, other) ==
    IF self.is_negative /\ ~other.is_negative THEN BRet(TRUE, FALSE)
    ELSE IF ~self.is_negative /\ other.is_negative THEN BRet(FALSE, FALSE)
    ELSE IF self.current_size # other.current_size
    THEN BRet((self.current_size > other.current_size)
                  = (self.is_negative /\ other.is_negative), FALSE)
    ELSE LET i == MAX_SIZE - self.current_size - 1
         IN  BRet(less_loop(self, other, i), i < 0)

RECURSIVE equal_loop(_, _, _)
equal_loop(self, other, i) ==
    IF ~ULess(i, MAX_SIZE) THEN TRUE
    ELSE IF self.digits[i] # other.digits[i] THEN FALSE
    ELSE equal_loop(self, other, i + 1)

equal(self, other) ==
    IF self.is_negative # other.is_negative \/ self.current_size # other.current_size
    THEN BRet(FALSE, FALSE)
    ELSE BRet(equal_loop(self, other, MAX_SIZE - self.current_size),
              MAX_SIZE - self.current_size < 0)

greater(self, other) ==
    LET l == less(self, other)
    IN  IF l.b THEN BRet(FALSE, l.ovf)
        ELSE LET e == equal(self, other) IN BRet(~e.b, l.ovf \/ e.ovf)

\* ---------------------------------------------------------------- add, sub

RECURSIVE add_abs_loop(_, _, _, _, _, _)
add_abs_loop(self, other, bound, i, carry, ds) ==
    IF ~ULess(bound, i) THEN [digits |-> ds, carry |-> carry, i |-> i]
    ELSE LET sum == self.digits[i] + other.digits[i] + carry
         IN  add_abs_loop(self, other, bound, i - 1, sum \div 10,
                          [ds EXCEPT ![i] = sum % 10])

add_abs(self, other) ==
    LET m     == max(self.current_size, other.current_size)
        bound == MAX_SIZE - m - 1
        l     == add_abs_loop(self, other, bound, MAX_SIZE - 1, 0, DEFAULT.digits)
        ds    == IF l.carry > 0 THEN [l.digits EXCEPT ![l.i] = l.carry] ELSE l.digits
        size  == (IF l.carry > 0 THEN 1 ELSE 0) + m
    IN  Ret(BigInt(FALSE, ds, size), bound < 0, FALSE)

RECURSIVE sub_abs_loop(_, _, _, _, _, _, _, _)
sub_abs_loop(grt, smaller, max_size, bound, i, borrow, final_size, ds) ==
    IF ~ULess(bound, i) THEN [digits |-> ds, final_size |-> final_size]
    ELSE LET diff == 10 + grt.digits[i] - smaller.digits[i] - borrow
             d    == IF diff >= 10 THEN diff - 10 ELSE diff
             bw   == IF diff >= 10 THEN 0 ELSE 1
         IN  sub_abs_loop(grt, smaller, max_size, bound, i - 1, bw,
                          IF d = 0 THEN final_size - 1 ELSE max_size,
                          [ds EXCEPT ![i] = d])

sub_abs(self, other) ==
    LET al       == abs_less(self, other)
        grt      == IF al.b THEN other ELSE self
        smaller  == IF al.b THEN self ELSE other
        max_size == max(self.current_size, other.current_size)
        bound    == MAX_SIZE - max_size - 1
        l        == sub_abs_loop(grt, smaller, max_size, bound, MAX_SIZE - 1, 0,
                                 max_size, DEFAULT.digits)
    IN  Ret(BigInt(FALSE, l.digits, max(l.final_size, 1)), al.ovf \/ bound < 0, FALSE)

add(self, other) ==
    IF self.is_negative = other.is_negative
    THEN LET r == add_abs(self, other)
         IN  [r EXCEPT !.val.is_negative = self.is_negative]
    ELSE LET r   == sub_abs(self, other)
             al  == abs_less(self, other)
             neg == IF al.b THEN other.is_negative ELSE self.is_negative
         IN  [r EXCEPT !.val.is_negative = IF is_zero(r.val) THEN FALSE ELSE neg,
                       !.ovf = r.ovf \/ al.ovf]

sub(self, other) ==
    IF self.is_negative = other.is_negative
    THEN LET r == sub_abs(self, other)
             l == less(self, other)
         IN  [r EXCEPT !.val.is_negative = l.b, !.ovf = r.ovf \/ l.ovf]
    ELSE LET r == add_abs(self, other)
         IN  [r EXCEPT !.val.is_negative = self.is_negative]

\* --------------------------------------------------------------------- mul

\* The inner loop of mul over j, for one digit other.digits[i].
\* r: the result digits so far with the carry, j and the flags.
RECURSIVE mul_inner(_, _, _, _)
mul_inner(self, other, i, r) ==
    LET jbound == MAX_SIZE - self.current_size - 1
        r1     == [r EXCEPT !.ovf = r.ovf \/ jbound < 0]
    IN  IF ~ULess(jbound, r.j) THEN r1
        ELSE LET t   == i + r.j - MAX_SIZE
                 loc == t + 1
             IN  IF ~InBounds(loc)
                 THEN [r1 EXCEPT !.ovf = r1.ovf \/ t < 0, !.oob = TRUE]
                 ELSE LET m == self.digits[r.j] * other.digits[i] + r.carry
                                   + r.digits[loc]
                      IN  mul_inner(self, other, i,
                              [r1 EXCEPT !.digits[loc] = m % 10,
                                         !.carry = m \div 10,
                                         !.j = r.j - 1,
                                         !.ovf = r1.ovf \/ t < 0])

\* The outer loop of mul over i.  r: the result digits so far and the flags.
RECURSIVE mul_outer(_, _, _, _)
mul_outer(self, other, i, r) ==
    LET ibound == MAX_SIZE - other.current_size - 1
    IN  IF r.oob \/ ~ULess(ibound, i) THEN r
        ELSE LET n   == mul_inner(self, other, i,
                            [r EXCEPT !.carry = 0, !.j = MAX_SIZE - 1])
                 t   == i + n.j - MAX_SIZE
                 loc == t + 1
             IN  IF n.oob THEN n
                 ELSE IF ~InBounds(loc)
                 THEN [n EXCEPT !.ovf = n.ovf \/ t < 0, !.oob = TRUE]
                 ELSE mul_outer(self, other, i - 1,
                          [n EXCEPT !.digits[loc] = n.digits[loc] + n.carry,
                                    !.ovf = n.ovf \/ t < 0])

\* "check if the real length is less than current_size": the offset of the first
\* nonzero digit at or after i, MAX_SIZE if there is none.
RECURSIVE first_nonzero(_, _)
first_nonzero(ds, i) ==
    IF ~ULess(i, MAX_SIZE) THEN MAX_SIZE
    ELSE IF ds[i] # 0 THEN i
    ELSE first_nonzero(ds, i + 1)

mul(self, other) ==
    IF is_zero(self) \/ is_zero(other) THEN Ret(DEFAULT, FALSE, FALSE)
    ELSE LET ibound == MAX_SIZE - other.current_size - 1
             l == mul_outer(self, other, MAX_SIZE - 1,
                      [digits |-> DEFAULT.digits, carry |-> 0, j |-> MAX_SIZE - 1,
                       ovf |-> ibound < 0, oob |-> FALSE])
             current_size == self.current_size + other.current_size
             i == MAX_SIZE - current_size
             f == first_nonzero(l.digits, i)
             size == IF f < MAX_SIZE THEN MAX_SIZE - f ELSE DEFAULT.current_size
         IN  IF l.oob THEN Ret(DEFAULT, l.ovf, TRUE)
             ELSE Ret(BigInt(self.is_negative # other.is_negative, l.digits, size),
                      l.ovf \/ i < 0, FALSE)

\* --------------------------------------------------------------------- div

const_clone(self) ==
    BigInt(self.is_negative,
           [i \in Idx |-> IF i >= MAX_SIZE - self.current_size
                          THEN self.digits[i] ELSE 0],
           self.current_size)

\* (diff / 10) ^ 1 on a non-negative i16
xor1(n) == IF n % 2 = 0 THEN n + 1 ELSE n - 1

\* div_compare with a window equal to the divisor taken for smaller.
RECURSIVE div_compare_strict(_, _, _, _, _, _)
div_compare_strict(dd, other, lhs_pos, rhs_pos, len, pos) ==
    IF ~(pos < len) THEN FALSE
    ELSE IF dd[lhs_pos + pos] > other.digits[rhs_pos + pos] THEN TRUE
    ELSE IF dd[lhs_pos + pos] < other.digits[rhs_pos + pos] THEN FALSE
    ELSE div_compare_strict(dd, other, lhs_pos, rhs_pos, len, pos + 1)

\* div_compare that never takes the window for smaller.
div_compare_hasty(dd, other, lhs_pos, rhs_pos, len, pos) == TRUE

\* "compare the two numbers": TRUE to subtract, FALSE to shift (break 'inner)
RECURSIVE div_compare(_, _, _, _, _, _)
div_compare(dd, other, lhs_pos, rhs_pos, len, pos) ==
    IF ~(pos < len) THEN TRUE
    ELSE IF dd[lhs_pos + pos] > other.digits[rhs_pos + pos] THEN TRUE
    ELSE IF dd[lhs_pos + pos] < other.digits[rhs_pos + pos] THEN FALSE
    ELSE div_compare(dd, other, lhs_pos, rhs_pos, len, pos + 1)

\* "subtract": the window's digits after the divisor is taken off, and the borrow
RECURSIVE div_subtract(_, _, _, _, _, _, _)
div_subtract(dd, other, lhs_pos, rhs_pos, len, pos, borrow) ==
    IF ~(pos < len) THEN [digits |-> dd, borrow |-> borrow]
    ELSE LET diff == 10 + dd[lhs_pos - pos] - other.digits[rhs_pos - pos] - borrow
         IN  div_subtract([dd EXCEPT ![lhs_pos - pos] = diff % 10], other,
                          lhs_pos, rhs_pos, len, pos + 1, xor1(diff \div 10))

\* The locals of div as its loops start: the working dividend's digits, the
\* quotient's digits, shift, num; whether an integer operation has overflowed;
\* and, of the last pass of 'inner, whether it subtracted, the borrow it was
\* left with and the digit left of the window before the borrow came off it
\* (-1 when the window starts at offset 0).
div_start(self) ==
    [pc |-> "loop", divident |-> const_clone(self).digits,
     quotient |-> DEFAULT.digits, shift |-> 0, num |-> 0, ovf |-> FALSE,
     subtracted |-> FALSE, borrow |-> 0, left |-> -1]

\* One pass of the 'inner loop: break 'outer (pc "finish"), or break 'inner
\* with quotient.digits[shift] = num; shift += 1, or one subtraction with its
\* assertions (pc "assert" when one fails) and num += 1.
div_inner(size, other, st) ==
    LET len     == other.current_size
        lhs_pos == MAX_SIZE + st.shift - size
        rhs_pos == MAX_SIZE - other.current_size
        last    == lhs_pos + len - 1
        st1     == [st EXCEPT !.ovf = st.ovf \/ lhs_pos < 0 \/ lhs_pos + len < 1,
                              !.subtracted = FALSE]
    IN  IF ~ULess(last, MAX_SIZE) THEN [st1 EXCEPT !.pc = "finish"]
        ELSE LET cmp == IF MAX_SIZE + st.shift < size + 1
                           \/ st.divident[MAX_SIZE + st.shift - size - 1] = 0
                        THEN div_compare(st.divident, other, lhs_pos, rhs_pos, len, 0)
                        ELSE TRUE
             IN  IF ~cmp
                 THEN [st1 EXCEPT !.quotient[st.shift] = st.num,
                                  !.shift = st.shift + 1,
                                  !.num = 0]
                 ELSE LET lhs_end == MAX_SIZE - size + st.shift + len - 1
                          rhs_end == MAX_SIZE - other.current_size + len - 1
                          s       == div_subtract(st.divident, other, lhs_end, rhs_end,
                                                  len, 0, 0)
                          left    == lhs_end - len
                          fired   == IF lhs_end >= len
                                     THEN s.digits[left] < s.borrow
                                     ELSE s.borrow # 0
                          dd      == IF lhs_end >= len /\ ~fired
                                     THEN [s.digits EXCEPT ![left] = s.digits[left] - s.borrow]
                                     ELSE s.digits
                      IN  [st1 EXCEPT !.divident = dd,
                                      !.subtracted = TRUE,
                                      !.borrow = s.borrow,
                                      !.left = IF lhs_end >= len THEN s.digits[left] ELSE -1,
                                      !.pc = IF fired THEN "assert" ELSE "loop",
                                      !.num = IF fired THEN st.num ELSE (st.num + 1) % 256,
                                      !.ovf = st1.ovf \/ (~fired /\ st.num = 255)]

\* The 'outer and 'inner loops of div, run to their end.  A subtraction that
\* takes nothing off the dividend repeats until num += 1 overflows u8, and
\* after the wrap again: pc "spin".
RECURSIVE div_loop(_, _, _)
div_loop(size, other, st) ==
    LET n == div_inner(size, other, st)
    IN  IF n.pc # "loop" THEN n
        ELSE IF n.subtracted /\ n.divident = st.divident
        THEN [n EXCEPT !.ovf = TRUE, !.pc = "spin"]
        ELSE div_loop(size, other, n)

\* div_move that leaves each digit where it was collected as well.
RECURSIVE div_move_copy(_, _, _)
div_move_copy(q, shift, i) ==
    IF ~(i <= shift) THEN q
    ELSE div_move_copy([q EXCEPT ![MAX_SIZE - i] = q[shift - i]], shift, i + 1)

\* "move digits to the right"
RECURSIVE div_move(_, _, _)
div_move(q, shift, i) ==
    IF ~(i <= shift) THEN q
    ELSE LET value == q[shift - i]
         IN  div_move([[q EXCEPT ![shift - i] = 0] EXCEPT ![MAX_SIZE - i] = value],
                      shift, i + 1)

\* What div leaves: the pair (val, rem) and how it ended.
DivRet(q, r, ovf, how) ==
    [val |-> q, rem |-> r, ovf |-> ovf, oob |-> FALSE, loops |-> how = "loops",
     zero_div |-> how = "zero_div", asserted |-> how = "asserted"]

\* What div does once 'outer is left: the quotient's digits moved right and its
\* size trimmed, the remainder copied from the working dividend and trimmed,
\* the signs.
div_finish(self, other, l) ==
    LET size  == const_clone(self).current_size
        qd    == div_move(l.quotient, l.shift, 1)
        qf    == first_nonzero(qd, MAX_SIZE - l.shift)
        qsize == max(IF qf < MAX_SIZE THEN MAX_SIZE - qf ELSE l.shift, 1)
        q0    == BigInt(self.is_negative # other.is_negative, qd, qsize)
        q     == IF is_zero(q0) THEN [q0 EXCEPT !.is_negative = FALSE] ELSE q0
        from  == MAX_SIZE - size
        rd    == [i \in Idx |-> IF i >= from THEN l.divident[i] ELSE 0]
        rf    == first_nonzero(rd, from)
        rsize == IF rf < MAX_SIZE THEN MAX_SIZE - rf ELSE DEFAULT.current_size
        r0    == BigInt(self.is_negative
                           \/ (self.is_negative /\ other.is_negative), rd, rsize)
        r     == IF is_zero(r0) THEN [r0 EXCEPT !.is_negative = FALSE] ELSE r0
    IN  [val |-> q, rem |-> r]

div(self, other) ==
    IF is_zero(self) THEN DivRet(DEFAULT, DEFAULT, FALSE, "ok")
    ELSE IF is_zero(other) THEN DivRet(DEFAULT, DEFAULT, FALSE, "zero_div")
    ELSE LET l == div_loop(const_clone(self).current_size, other, div_start(self))
             f == div_finish(self, other, l)
         IN  IF l.pc = "assert" THEN DivRet(DEFAULT, DEFAULT, l.ovf, "asserted")
             ELSE IF l.pc = "spin" THEN DivRet(DEFAULT, DEFAULT, l.ovf, "loops")
             ELSE DivRet(f.val, f.rem, l.ovf, "ok")

\* ----------------------------------------------------------- the inputs

InputDigits == (0 .. MaxLowDigit) \cup {9}

\* Decimal texts of the documented grammar: an optional '-' and 1..MAX_SIZE digits.
DigitTexts ==
    UNION { { [k \in 1 .. n |-> f[k] + ZERO_CHAR] : f \in [1 .. n -> InputDigits] }
            : n \in 1 .. MAX_SIZE }

Texts == DigitTexts \cup { <<MINUS>> \o t : t \in DigitTexts }

RECURSIVE DigitsIn(_)
DigitsIn(n) == IF n < 10 THEN n \in InputDigits
               ELSE (n % 10) \in InputDigits /\ DigitsIn(n \div 10)

RECURSIVE Pow10(_)
Pow10(n) == IF n = 0 THEN 1 ELSE 10 * Pow10(n - 1)

\* The integers handed to from_i128: those of at most MAX_SIZE input digits.
Numbers ==
    { n \in (1 - Pow10(MAX_SIZE)) .. (Pow10(MAX_SIZE) - 1) :
        DigitsIn(IF n < 0 THEN -n ELSE n) }

\* The decimal texts i.to_string() gives, as the tests build their operands:
\* no leading zero but in "0", and no "-0".
Plain(t) ==
    LET body == IF t[1] = MINUS THEN Tail(t) ELSE t
    IN  IF body[1] = ZERO_CHAR THEN t = <<ZERO_CHAR>> ELSE TRUE

\* The operands of the arithmetic: what the constructors return for those inputs.
Operands ==
    { from_str(t).val : t \in { u \in Texts : Plain(u) } }
        \cup { from_i128(n).val : n \in Numbers }

\* ------------------------------------------------------ the state machine

VARIABLES
    overflow_checks,  \* the build: TRUE when integer overflow panics (debug, const)
    x, y,             \* the operands
    op,               \* the last operation
    text,             \* the text it parsed, if it parsed one
    num,              \* the integer it converted, if it converted one
    subject,          \* the value it rendered, if it rendered one
    out,              \* how it ended and what it returned
    dv                \* the locals of a div that is under way, pass by pass

vars == <<overflow_checks, x, y, op, text, num, subject, out, dv>>

Out(how, val, rem, b) == [how |-> how, val |-> val, rem |-> rem, b |-> b]

NoOut == Out("none", DEFAULT, DEFAULT, FALSE)

\* No div is under way.
NoDiv == [div_start(DEFAULT) EXCEPT !.pc = "idle"]

\* How a call ends in this build: a panic on overflow when overflow is checked,
\* a panic on an index out of bounds, otherwise the value.
How(r) ==
    IF overflow_checks /\ r.ovf THEN "overflow"
    ELSE IF r.oob THEN "index"
    ELSE IF r.loops THEN "loops"
    ELSE "ok"

Value(r) ==
    IF How(r) = "ok" THEN Out("ok", r.val, DEFAULT, FALSE)
    ELSE Out(How(r), DEFAULT, DEFAULT, FALSE)

Answer(r) ==
    IF overflow_checks /\ r.ovf THEN Out("overflow", DEFAULT, DEFAULT, FALSE)
    ELSE Out("ok", DEFAULT, DEFAULT, r.b)

Pair(r) ==
    LET how == IF r.zero_div THEN "zero_div"
               ELSE IF overflow_checks /\ r.ovf THEN "overflow"
               ELSE IF r.asserted THEN "assert"
               ELSE IF r.loops THEN "loops"
               ELSE "ok"
    IN  IF how = "ok" THEN Out("ok", r.val, r.rem, FALSE)
        ELSE Out(how, DEFAULT, DEFAULT, FALSE)

\* The arithmetic and the comparisons, on every pair of operands.
Init ==
    /\ overflow_checks \in BOOLEAN
    /\ x \in Operands
    /\ y \in Operands
    /\ op = "init"
    /\ text = << >>
    /\ num = 0
    /\ subject = DEFAULT
    /\ out = NoOut
    /\ dv = NoDiv

\* The constructors alone.
InitCtor ==
    /\ overflow_checks \in BOOLEAN
    /\ x = DEFAULT
    /\ y = DEFAULT
    /\ op = "init"
    /\ text = << >>
    /\ num = 0
    /\ subject = DEFAULT
    /\ out = NoOut
    /\ dv = NoDiv

\* BigInt::from_str(t)
FromStr ==
    \E t \in Texts :
        /\ op' = "from_str"
        /\ text' = t
        /\ out' = Value(from_str(t))
        /\ num' = 0
        /\ subject' = DEFAULT
        /\ UNCHANGED <<overflow_checks, x, y, dv>>

\* BigInt::from_i128(n)
FromI128 ==
    \E n \in Numbers :
        /\ op' = "from_i128"
        /\ num' = n
        /\ out' = Value(from_i128(n))
        /\ text' = << >>
        /\ subject' = DEFAULT
        /\ UNCHANGED <<overflow_checks, x, y, dv>>

\* One operation is applied to the operands as they were bound: it reads x and y
\* alone, so applying it after another operation adds no behaviour.
Add ==
    /\ op = "init"
    /\ op' = "add"
    /\ out' = Value(add(x, y))
    /\ UNCHANGED <<overflow_checks, x, y, text, num, subject, dv>>

Sub ==
    /\ op = "init"
    /\ op' = "sub"
    /\ out' = Value(sub(x, y))
    /\ UNCHANGED <<overflow_checks, x, y, text, num, subject, dv>>

Mul ==
    /\ op = "init"
    /\ op' = "mul"
    /\ out' = Value(mul(x, y))
    /\ UNCHANGED <<overflow_checks, x, y, text, num, subject, dv>>

Div ==
    /\ op = "init"
    /\ op' = "div"
    /\ out' = Pair(div(x, y))
    /\ UNCHANGED <<overflow_checks, x, y, text, num, subject, dv>>

Less ==
    /\ op = "init"
    /\ op' = "less"
    /\ out' = Answer(less(x, y))
    /\ UNCHANGED <<overflow_checks, x, y, text, num, subject, dv>>

Equal ==
    /\ op = "init"
    /\ op' = "equal"
    /\ out' = Answer(equal(x, y))
    /\ UNCHANGED <<overflow_checks, x, y, text, num, subject, dv>>

Greater ==
    /\ op = "init"
    /\ op' = "greater"
    /\ out' = Answer(greater(x, y))
    /\ UNCHANGED <<overflow_checks, x, y, text, num, subject, dv>>

ArithOps == {"add", "sub", "mul", "div"}

CtorOps == {"from_str", "from_i128"}

\* BigInt::from_str(&v.to_string()), for an operand or for the value just returned
RoundTrip ==
    \E which \in {"x", "val", "rem"} :
        /\ which \in {"val", "rem"} => out.how = "ok" /\ op \in ArithOps \cup CtorOps
        /\ which = "rem" => op = "div"
        /\ which = "x" => op = "init"
        /\ LET v == CASE which = "x" -> x
                      [] which = "val" -> out.val
                      [] which = "rem" -> out.rem
           IN  /\ subject' = v
               /\ text' = fmt(v)
               /\ out' = Value(from_str(fmt(v)))
        /\ op' = "round_trip"
        /\ num' = 0
        /\ UNCHANGED <<overflow_checks, x, y, dv>>

\* div(x, y), a pass of its loops at a time.  DivCall is its entry: the two
\* early exits, or the locals as the loops start.
DivCall ==
    /\ op = "init"
    /\ op' = "div"
    /\ IF is_zero(x)
       THEN /\ out' = Out("ok", DEFAULT, DEFAULT, FALSE)
            /\ dv' = [NoDiv EXCEPT !.pc = "done"]
       ELSE IF is_zero(y)
       THEN /\ out' = Out("zero_div", DEFAULT, DEFAULT, FALSE)
            /\ dv' = [NoDiv EXCEPT !.pc = "done"]
       ELSE /\ out' = out
            /\ dv' = div_start(x)
    /\ UNCHANGED <<overflow_checks, x, y, text, num, subject>>

\* One pass of 'inner.  It panics where an integer operation overflows in a
\* build that checks overflow, and where an assertion fails.
DivInner ==
    /\ dv.pc = "loop"
    /\ LET n == div_inner(const_clone(x).current_size, y, dv)
       IN  IF overflow_checks /\ n.ovf
           THEN /\ out' = Out("overflow", DEFAULT, DEFAULT, FALSE)
                /\ dv' = [n EXCEPT !.pc = "done"]
           ELSE IF n.pc = "assert"
           THEN /\ out' = Out("assert", DEFAULT, DEFAULT, FALSE)
                /\ dv' = [n EXCEPT !.pc = "done"]
           ELSE /\ out' = out
                /\ dv' = n
    /\ UNCHANGED <<overflow_checks, x, y, op, text, num, subject>>

\* After 'outer: the pair is returned.
DivReturn ==
    /\ dv.pc = "finish"
    /\ LET f == div_finish(x, y, dv)
       IN  out' = Out("ok", f.val, f.rem, FALSE)
    /\ dv' = [dv EXCEPT !.pc = "done"]
    /\ UNCHANGED <<overflow_checks, x, y, op, text, num, subject>>

Next ==
    \/ Add
    \/ Sub
    \/ Mul
    \/ Div
    \/ Less
    \/ Equal
    \/ Greater
    \/ RoundTrip

NextCtor ==
    \/ FromStr
    \/ FromI128
    \/ RoundTrip

Spec == Init /\ [][Next]_vars

SpecCtor == InitCtor /\ [][NextCtor]_vars

NextDiv ==
    \/ DivCall
    \/ DivInner
    \/ DivReturn

\* div alone, pass by pass.
SpecDiv == Init /\ [][NextDiv]_vars

\* The same where a div that is under way is run on: no rule of the language
\* lets a thread stop for ever in the middle of a call.
SpecDivFair == SpecDiv /\ WF_vars(NextDiv)

\* ------------------------------------------------------------ the claims

\* The integer a value stands for: its current_size digits from offset
\* MAX_SIZE - current_size, most significant first, with its sign.
RECURSIVE Magnitude(_, _)
Magnitude(v, n) ==
    IF n = 0 THEN 0
    ELSE 10 * Magnitude(v, n - 1) + v.digits[MAX_SIZE - v.current_size + n - 1]

Num(v) == IF v.is_negative THEN -Magnitude(v, v.current_size)
          ELSE Magnitude(v, v.current_size)

Abs(n) == IF n < 0 THEN -n ELSE n

\* The data-model invariants of a value.
Canonical(v) ==
    /\ 1 <= v.current_size /\ v.current_size <= MAX_SIZE
    /\ \A i \in Idx : i >= MAX_SIZE - v.current_size => v.digits[i] \in 0 .. 9
    /\ v.digits[MAX_SIZE - v.current_size] = 0
          => v.current_size = 1 /\ ~v.is_negative

\* n needs at most MAX_SIZE digits
Fits(n) == Abs(n) < Pow10(MAX_SIZE)

SameValue(v, w) ==
    /\ v.is_negative = w.is_negative
    /\ v.current_size = w.current_size
    /\ \A i \in Idx : i >= MAX_SIZE - v.current_size => v.digits[i] = w.digits[i]

\* n.to_string(), the decimal text of an integer
RECURSIVE DecimalDigits(_)
DecimalDigits(n) ==
    IF n < 10 THEN <<n + ZERO_CHAR>>
    ELSE Append(DecimalDigits(n \div 10), (n % 10) + ZERO_CHAR)

DecimalText(n) == IF n < 0 THEN <<MINUS>> \o DecimalDigits(-n) ELSE DecimalDigits(n)

\* C1: for canonical a and canonical nonzero b, div(a, b) returns (q, r) with
\* b*q + r = a, |r| < |b|, and r of a's sign unless r is zero.
C1_DivIsTruncatingDivision ==
    (op = "div" /\ Canonical(x) /\ Canonical(y) /\ Num(y) # 0)
        => /\ out.how = "ok"
           /\ Num(y) * Num(out.val) + Num(out.rem) = Num(x)
           /\ Abs(Num(out.rem)) < Abs(Num(y))
           /\ Num(out.rem) # 0 => out.rem.is_negative = x.is_negative
           /\ Num(out.rem) = 0 => ~out.rem.is_negative

\* A division of a negative dividend that fills the buffer, with a quotient of
\* two digits or more and a remainder.
C1_Witness ==
    /\ op = "div" /\ out.how = "ok"
    /\ Canonical(x) /\ Canonical(y) /\ Num(y) # 0
    /\ x.current_size = MAX_SIZE /\ x.is_negative
    /\ out.val.current_size >= 2
    /\ Num(out.rem) # 0

\* C2: for canonical a and b whose sum needs at most MAX_SIZE digits, add(a, b)
\* returns the canonical representation of a + b.
C2_AddIsTheSum ==
    (op = "add" /\ Canonical(x) /\ Canonical(y) /\ Fits(Num(x) + Num(y)))
        => /\ out.how = "ok"
           /\ Canonical(out.val)
           /\ Num(out.val) = Num(x) + Num(y)

\* C3: for canonical a and b whose difference needs at most MAX_SIZE digits,
\* sub(a, b) returns the canonical representation of a - b.
C3_SubIsTheDifference ==
    (op = "sub" /\ Canonical(x) /\ Canonical(y) /\ Fits(Num(x) - Num(y)))
        => /\ out.how = "ok"
           /\ Canonical(out.val)
           /\ Num(out.val) = Num(x) - Num(y)

\* C4: for canonical a and b whose product needs at most MAX_SIZE digits,
\* mul(a, b) returns the canonical representation of a * b.
C4_MulIsTheProduct ==
    (op = "mul" /\ Canonical(x) /\ Canonical(y) /\ Fits(Num(x) * Num(y)))
        => /\ out.how = "ok"
           /\ Canonical(out.val)
           /\ Num(out.val) = Num(x) * Num(y)

\* C5: for canonical a and b, less, equal and greater answer as <, = and > do
\* on the integers a and b stand for.
C5_ComparisonsAreNative ==
    (Canonical(x) /\ Canonical(y))
        => /\ op = "less" => out.how = "ok" /\ out.b = (Num(x) < Num(y))
           /\ op = "equal" => out.how = "ok" /\ out.b = (Num(x) = Num(y))
           /\ op = "greater" => out.how = "ok" /\ out.b = (Num(x) > Num(y))

\* C6: div(a, b) with b zero aborts with "division by zero", whatever a is.
C6_DivByZeroAborts ==
    (op = "div" /\ Canonical(y) /\ Num(y) = 0) => out.how = "zero_div"

\* C7: from_i128(n) returns what from_str returns for the decimal text of n;
\* from_i128(0) is the canonical zero.
C7_FromI128IsFromStr ==
    op = "from_i128"
        => /\ out.how = "ok"
           /\ SameValue(out.val, from_str(DecimalText(num)).val)
           /\ num = 0 => /\ out.val.current_size = 1
                         /\ ~out.val.is_negative
                         /\ is_zero(out.val)

\* C8: parsing the rendering of a value returns an equal value.
C8_RoundTrip ==
    op = "round_trip" => out.how = "ok" /\ equal(out.val, subject).b

\* C9: add, sub, mul and div of canonical operands, when the true result needs
\* at most MAX_SIZE digits, return canonical values.
C9_ArithmeticKeepsCanonical ==
    (/\ op \in ArithOps /\ out.how = "ok"
     /\ Canonical(x) /\ Canonical(y)
     /\ op = "add" => Fits(Num(x) + Num(y))
     /\ op = "sub" => Fits(Num(x) - Num(y))
     /\ op = "mul" => Fits(Num(x) * Num(y))
     /\ op = "div" => Num(y) # 0)
        => /\ Canonical(out.val)
           /\ op = "div" => Canonical(out.rem)

\* C10: from_str of a text of the grammar returns a value that meets the
\* data-model invariants.
C10_FromStrIsCanonical ==
    op = "from_str" => out.how = "ok" /\ Canonical(out.val)

\* C12: a BigInt whose capacity is 18 or less is rejected: no constructor
\* returns a value of it.
C12_SmallCapacityIsRejected ==
    MAX_SIZE <= 18 => ~(op \in CtorOps /\ out.how = "ok")

\* C13: in div of a canonical dividend by a canonical nonzero divisor neither
\* assertion fails: after each subtraction the borrow is at most the digit left
\* of the window where there is one, and 0 where the window starts at offset 0.
C13_DivAssertionsHold ==
    (op = "div" /\ Canonical(x) /\ Canonical(y) /\ Num(y) # 0)
        => /\ out.how # "assert"
           /\ dv.subtracted
                 => IF dv.left >= 0 THEN dv.borrow <= dv.left ELSE dv.borrow = 0

\* A subtraction, in the middle of a dividend that fills the buffer, that
\* leaves a borrow for the digit left of the window to pay.
C13_Witness ==
    /\ op = "div" /\ Canonical(x) /\ Canonical(y) /\ Num(y) # 0
    /\ x.current_size = MAX_SIZE
    /\ dv.pc = "loop" /\ dv.subtracted
    /\ dv.borrow = 1 /\ dv.left >= 1

\* C14: div(a, b) terminates, by returning a pair or by aborting, for every a
\* and b the constructors give, the zero of from_i128(0) and DEFAULT as
\* divisors included.
C14_DivTerminates == <>(dv.pc = "done")

\* The slots below MAX_SIZE - current_size
Padded(v) == \A i \in Idx : i < MAX_SIZE - v.current_size => v.digits[i] = 0

\* C15: in every value a constructor returns, and in every value add, sub, mul
\* and div return (quotient and remainder), the padding slots hold 0.
C15_PaddingIsZero ==
    /\ Padded(x) /\ Padded(y)
    /\ (op \in ArithOps \cup CtorOps \cup {"round_trip"} /\ out.how = "ok")
          => Padded(out.val) /\ Padded(out.rem)

\* A quotient shorter than the buffer whose digits div collected from offset 0
\* and then moved right, out of what is now padding.
C15_Witness ==
    /\ op = "div" /\ out.how = "ok"
    /\ x.current_size = MAX_SIZE
    /\ out.val.current_size >= 2 /\ out.val.current_size < MAX_SIZE
    /\ Padded(out.val) /\ Padded(out.rem)
====
